---- MODULE Spec2Model ----
(***************************************************************************)
(* Model of the socket hook of react-socket-hooks.                         *)
(*                                                                         *)
(* src/socket-instance.js holds the effect that owns the WebSocket         *)
(* (useSocketInstance, lines 3-11) and the behaviour tests of the whole    *)
(* hook (lines 22-283).  The caller of useSocketInstance (useSocket: the   *)
(* debounce of the url, the message queue, the open handler) is not part   *)
(* of the sources; it is modelled from the specification, and where the    *)
(* tests pin its behaviour down (the first socket is only created after    *)
(* the debounce delay, lines 43-54 and 145-159) from the tests.            *)
(*                                                                         *)
(* React runs a render and its effects inside act() as one step, and the   *)
(* event loop serialises timers and socket events, so every handler is one *)
(* atomic action.                                                          *)
(***************************************************************************)
EXTENDS Integers, Sequences, FiniteSets, TLC

\* ---- bounds ------------------------------------------------------------
MaxSockets == 2          \* sockets ever constructed in one run
MaxMessages == 2         \* send() calls in one run
MaxBurst == 2            \* url changes counted within one debounce window
MaxCloseCalls == 2       \* close() calls on one socket

\* ---- values ------------------------------------------------------------
None == "none"                                   \* undefined url / null ref
Addrs == {"wss://a", "wss://b", "wss://c"}       \* urls the caller passes
Payloads == 1..MaxMessages                       \* the n-th value passed to send()

CONNECTING == "CONNECTING"
OPEN == "OPEN"
CLOSED == "CLOSED"

\* JSON.stringify(p): the text frame that carries p (lines 76, 104-105)
Stringify(p) ==
    <<"json", p>>

VARIABLES
    url,            \* the url prop of the latest render of useSocket
    debouncedUrl,   \* the url prop handed to useSocketInstance
    timer,          \* None, or the url the armed debounce timer will commit
    sockets,        \* every WebSocket ever constructed (this.sockets of the tests)
    socketCurrent,  \* socket.current: 0 is null, otherwise an index of sockets
    queue,          \* outbound queue: messages not yet handed to a socket
    nextId,         \* number of send() calls so far + 1
    mounted,        \* FALSE once the hook is unmounted
    changes,        \* ghost: url changes within the current debounce window
    fired,          \* ghost: what the last firing of the debounce timer did
    drained,        \* ghost: how many messages the last "open" event flushed
    direct,         \* ghost: the step just taken was a send() that handed its
                    \* frame to the socket at once
    carried,        \* ghost: messages were queued when the timer last fired,
                    \* and only "open" events have followed
    handler,        \* the registered message handler, None when there is none
    received,       \* number of "message" events on the socket in use so far
    delivered       \* ghost: every handler call so far, as <<handler, message>>

vars == <<url, debouncedUrl, timer, sockets, socketCurrent, queue, nextId,
          mounted, changes, fired, drained, direct, carried, handler, received,
          delivered>>

\* the inbound side, which no outbound operation touches
inbound == <<handler, received, delivered>>

\* ---- WebSocket -----------------------------------------------------------
\* new WebSocket(url) (line 6)
NewWebSocket(u) ==
    [url |-> u, readyState |-> CONNECTING, sentMessages |-> <<>>,
     openListener |-> FALSE, closeCalls |-> 0]

\* socket.close(): the socket ends CLOSED; closing a closed socket is a no-op
CloseSocket(s) ==
    [s EXCEPT !.readyState = CLOSED, !.closeCalls = @ + 1]

\* mutant: the "open" listener is never registered
AddOpenListener_Missing(s) ==
    s

\* socket.addEventListener("open", openHandler) (line 7)
AddOpenListener(s) ==
    [s EXCEPT !.openListener = TRUE]

\* ---- useSocketInstance ---------------------------------------------------
\* mutant: the effect returns no cleanup, the old socket is left as it is
Cleanup_NoClose(socks, cur) ==
    socks

\* the cleanup of the effect (line 10): socket.current && socket.current.close()
Cleanup(socks, cur) ==
    IF cur # 0 THEN [socks EXCEPT ![cur] = CloseSocket(@)] ELSE socks

\* mutant: the new socket is not stored in socket.current
EffectBody_NoAssign(socks, cur, u) ==
    IF u # None
    THEN <<Append(socks, AddOpenListener(NewWebSocket(u))), cur>>
    ELSE <<socks, cur>>

\* the body of the effect (lines 5-8), as the pair <<sockets, socket.current>>
EffectBody(socks, cur, u) ==
    IF u # None
    THEN <<Append(socks, AddOpenListener(NewWebSocket(u))), Len(socks) + 1>>
    ELSE <<socks, cur>>

\* the dependencies the caller hands to the effect with url prop u.  The
\* caller keeps openHandler, send and the socket ref the same objects over all
\* renders: the tests see one socket through send, open and close (lines 56-139)
Deps(u) ==
    [openHandler |-> "openHandler", send |-> "send", socket |-> "socket",
     url |-> u]

\* mutant: no dependency list, the effect runs again after every render
DepsChanged_Always(old, new) ==
    TRUE

\* the dependency list of the effect (line 11): [openHandler, send, socket, url]
DepsChanged(old, new) ==
    \E k \in {"openHandler", "send", "socket", "url"} : old[k] # new[k]

\* mutant: the effect body sees the url of the previous render
UseSocketInstance_StaleUrl(socks, cur, old, new) ==
    IF DepsChanged(old, new)
    THEN EffectBody(Cleanup(socks, cur), cur, old.url)
    ELSE <<socks, cur>>

\* a re-render of useSocketInstance with the dependencies new, after a render
\* with the dependencies old: when one changed, the old effect is cleaned up
\* and the effect runs
UseSocketInstance(socks, cur, old, new) ==
    IF DepsChanged(old, new)
    THEN EffectBody(Cleanup(socks, cur), cur, new.url)
    ELSE <<socks, cur>>

\* ---- outbound queue ------------------------------------------------------
\* the active socket is OPEN
Ready(socks, cur) ==
    cur # 0 /\ socks[cur].readyState = OPEN

\* mutant: the flush sends the queue but does not empty it
Flush_Peek(socks, cur, q) ==
    IF Ready(socks, cur)
    THEN <<[socks EXCEPT ![cur].sentMessages = @ \o q], q>>
    ELSE <<socks, q>>

\* drain the queue onto the active socket when it is OPEN;
\* the pair <<sockets, queue>>
Flush(socks, cur, q) ==
    IF Ready(socks, cur)
    THEN <<[socks EXCEPT ![cur].sentMessages = @ \o q], <<>>>>
    ELSE <<socks, q>>

\* the handler of the "open" event: flush the queue (lines 94-106)
OpenHandler(socks, cur, q) ==
    Flush(socks, cur, q)

\* ---- initial state -------------------------------------------------------
NoFire == [changes |-> 0, target |-> None, from |-> 0, base |-> 0,
           happened |-> FALSE]

\* renderHook(({url}) => useSocket(url), {initialProps}) (lines 32-34, 274):
\* no socket yet (lines 43-45, 279-281), the first url waits for the debounce
Init ==
    /\ url \in Addrs \cup {None}
    /\ debouncedUrl = None
    /\ timer = url
    /\ sockets = <<>>
    /\ socketCurrent = 0
    /\ queue = <<>>
    /\ nextId = 1
    /\ mounted = TRUE
    /\ changes = IF url = None THEN 0 ELSE 1
    /\ fired = NoFire
    /\ drained = 0
    /\ direct = FALSE
    /\ carried = FALSE
    /\ handler = None
    /\ received = 0
    /\ delivered = <<>>

\* ---- the caller: target changes and the debounce -------------------------
\* a render of the caller that hands the url prop u to useSocketInstance,
\* as the pair <<sockets, socket.current>> after the effects have run
Rerender(u) ==
    UseSocketInstance(sockets, socketCurrent, Deps(debouncedUrl), Deps(u))

\* the render that follows a send or a socket event: useSocketInstance is
\* called again with the props it had, on the sockets socks the handler left;
\* an unmounted hook renders no more
AfterRender(socks) ==
    IF mounted
    THEN UseSocketInstance(socks, socketCurrent, Deps(debouncedUrl),
                           Deps(debouncedUrl))
    ELSE <<socks, socketCurrent>>

\* the timer after a render with url u, when the socket in use is for inUse:
\* the address in use drops the pending switch (lines 217-236), any other
\* address (re)arms the timer (lines 145-177), also for the first socket
Debounce(u, inUse) ==
    IF u = inUse THEN None ELSE u

\* rerender({url: u}) with an address (lines 148, 166, 220)
SetTarget(u) ==
    /\ mounted
    /\ u \in Addrs
    /\ (u # url /\ timer # None) => changes < MaxBurst
    /\ url' = u
    /\ changes' = IF u = url THEN changes
                  ELSE IF timer = None THEN 1 ELSE changes + 1
    /\ timer' = IF u = url THEN timer ELSE Debounce(u, debouncedUrl)
    /\ debouncedUrl' = debouncedUrl
    /\ sockets' = Rerender(debouncedUrl')[1]
    /\ socketCurrent' = Rerender(debouncedUrl')[2]
    /\ direct' = FALSE
    /\ carried' = FALSE
    /\ UNCHANGED <<queue, nextId, mounted, fired, drained>>
    /\ UNCHANGED inbound

\* a render without url: the socket goes at once and nothing is pending
ClearTarget ==
    /\ mounted
    /\ url # None
    /\ url' = None
    /\ timer' = None
    /\ debouncedUrl' = None
    /\ changes' = 0
    /\ sockets' = Rerender(debouncedUrl')[1]
    /\ socketCurrent' = Rerender(debouncedUrl')[2]
    /\ direct' = FALSE
    /\ carried' = FALSE
    /\ UNCHANGED <<queue, nextId, mounted, fired, drained>>
    /\ UNCHANGED inbound

\* this.clock.tick(1000) with the timer armed (lines 49, 151, 163, 181, 223):
\* the debounced url becomes the newest url and useSocketInstance re-renders
TimerFire ==
    /\ mounted
    /\ timer # None
    /\ Len(sockets) < MaxSockets
    /\ debouncedUrl' = timer
    /\ timer' = None
    /\ sockets' = Rerender(debouncedUrl')[1]
    /\ socketCurrent' = Rerender(debouncedUrl')[2]
    /\ fired' = [changes |-> changes, target |-> url,
                 from |-> IF debouncedUrl = None THEN 0 ELSE socketCurrent,
                 base |-> Len(sockets), happened |-> TRUE]
    /\ carried' = (queue # <<>>)
    /\ changes' = 0
    /\ direct' = FALSE
    /\ UNCHANGED <<url, queue, nextId, mounted, drained>>
    /\ UNCHANGED inbound

\* result.current.send(p) (lines 70, 85-86, 201-202): queued, and handed to
\* the socket at once when it is OPEN (lines 67-78)
Send(p) ==
    /\ mounted
    /\ p = nextId
    /\ nextId' = nextId + 1
    /\ LET q == Append(queue, Stringify(p))
       IN /\ sockets' = AfterRender(Flush(sockets, socketCurrent, q)[1])[1]
          /\ socketCurrent' = AfterRender(Flush(sockets, socketCurrent, q)[1])[2]
          /\ queue' = Flush(sockets, socketCurrent, q)[2]
    /\ direct' = Ready(sockets, socketCurrent)
    /\ carried' = FALSE
    /\ UNCHANGED <<url, debouncedUrl, timer, mounted, changes, fired, drained>>
    /\ UNCHANGED inbound

\* ---- the transport -------------------------------------------------------
\* socket.triggerOpen() (lines 59, 97, 126, 205); the tests also reopen a
\* socket that the transport had closed (lines 113, 126)
TriggerOpen(i) ==
    /\ i \in 1..Len(sockets)
    /\ \/ sockets[i].readyState = CONNECTING
       \/ sockets[i].readyState = CLOSED /\ sockets[i].closeCalls = 0
    /\ LET opened == [sockets EXCEPT ![i].readyState = OPEN]
           r == IF sockets[i].openListener
                THEN OpenHandler(opened, socketCurrent, queue)
                ELSE <<opened, queue>>
       IN /\ sockets' = AfterRender(r[1])[1]
          /\ socketCurrent' = AfterRender(r[1])[2]
          /\ queue' = r[2]
          /\ drained' = Len(queue) - Len(r[2])
    /\ direct' = FALSE
    /\ UNCHANGED <<url, debouncedUrl, timer, nextId, mounted, changes, fired,
                   carried>>
    /\ UNCHANGED inbound

\* socket.triggerClose() (line 113)
TriggerClose(i) ==
    /\ i \in 1..Len(sockets)
    /\ sockets[i].readyState \in {CONNECTING, OPEN}
    /\ LET closed == [sockets EXCEPT ![i].readyState = CLOSED]
       IN /\ sockets' = AfterRender(closed)[1]
          /\ socketCurrent' = AfterRender(closed)[2]
    /\ direct' = FALSE
    /\ carried' = FALSE
    /\ UNCHANGED <<url, debouncedUrl, timer, queue, nextId, mounted, changes,
                   fired, drained>>
    /\ UNCHANGED inbound

\* ---- unmount -------------------------------------------------------------
\* cleanup() of the tests (line 23): the effect's cleanup runs (line 10) and
\* no timer is left to fire; the teardown may be repeated
Unmount ==
    /\ socketCurrent # 0 => sockets[socketCurrent].closeCalls < MaxCloseCalls
    /\ mounted' = FALSE
    /\ timer' = None
    /\ sockets' = Cleanup(sockets, socketCurrent)
    /\ direct' = FALSE
    /\ carried' = FALSE
    /\ UNCHANGED <<url, debouncedUrl, socketCurrent, queue, nextId, changes,
                   fired, drained>>
    /\ UNCHANGED inbound

Next ==
    \/ \E u \in Addrs : SetTarget(u)
    \/ ClearTarget
    \/ TimerFire
    \/ \E p \in Payloads : Send(p)
    \/ \E i \in 1..MaxSockets : TriggerOpen(i)
    \/ \E i \in 1..MaxSockets : TriggerClose(i)
    \/ Unmount

Spec == Init /\ [][Next]_vars

\* ---- type invariant ------------------------------------------------------
TypeOK ==
    /\ url \in Addrs \cup {None}
    /\ debouncedUrl \in Addrs \cup {None}
    /\ timer \in Addrs \cup {None}
    /\ Len(sockets) <= MaxSockets
    /\ socketCurrent \in 0..Len(sockets)
    /\ nextId \in 1..(MaxMessages + 1)
    /\ mounted \in BOOLEAN

\* ---- notions used by the properties --------------------------------------
\* the connection the hook is using: none without a debounced url or after unmount
ActiveConnection ==
    IF mounted /\ debouncedUrl # None THEN socketCurrent ELSE 0

RECURSIVE WireUpTo(_)
\* the frames sent on sockets 1..n, in the order of transmission
WireUpTo(n) ==
    IF n = 0 THEN <<>> ELSE WireUpTo(n - 1) \o sockets[n].sentMessages

\* every frame that was handed to a socket, in the order of transmission
Wire == WireUpTo(Len(sockets))

\* the frames of all send() calls so far, in the order of the calls
Submitted == [k \in 1..(nextId - 1) |-> Stringify(k)]

\* no element occurs twice in the sequence
NoRepeat(seq) ==
    \A a, b \in 1..Len(seq) : a # b => seq[a] # seq[b]

\* ---- C1 ------------------------------------------------------------------
\* C1: whenever the active socket is OPEN the queue has been flushed: the
\* frames on the wire are exactly the submitted messages, in submission
\* order, each once - in particular those sent before the socket opened.
C1_QueuedSentInOrderOnOpen ==
    Ready(sockets, socketCurrent) => (queue = <<>> /\ Wire = Submitted)

\* two messages were queued before the open event, which flushed both
C1_Witness ==
    /\ Ready(sockets, socketCurrent)
    /\ drained >= 2
    /\ Len(sockets[socketCurrent].sentMessages) >= 2

C3_NoDuplicateTransmission ==
    NoRepeat(Wire \o queue)

\* a socket flushed, was replaced by a socket to the same address, and that
\* one opened and sent as well
C3_Witness ==
    /\ Len(sockets) >= 2
    /\ sockets[1].sentMessages # <<>>
    /\ sockets[2].url = sockets[1].url
    /\ sockets[2].readyState = OPEN
    /\ sockets[2].sentMessages # <<>>

\* ---- C4 ------------------------------------------------------------------
\* C4: the only socket that may be CONNECTING or OPEN is socket.current, so
\* no two sockets of the hook are non-CLOSED together: the old socket is closed
\* before its replacement is constructed.
C4_AtMostOneLiveSocket ==
    /\ \A i \in 1..Len(sockets) :
         sockets[i].readyState # CLOSED => i = socketCurrent
    /\ Cardinality({i \in 1..Len(sockets) : sockets[i].readyState # CLOSED}) <= 1

\* an OPEN socket was replaced: it is closed, its successor is live
C4_Witness ==
    /\ Len(sockets) >= 2
    /\ sockets[1].sentMessages # <<>>
    /\ sockets[1].readyState = CLOSED
    /\ sockets[1].closeCalls = 1
    /\ sockets[2].readyState # CLOSED

\* ---- C5 ------------------------------------------------------------------
\* C5: when the timer fires after two or more url changes made while a socket
\* was in use, exactly one socket has been constructed since, it targets the
\* last url of the burst, and the socket that was in use is closed, by exactly
\* one close() call.
C5_DebounceCollapse ==
    (fired.happened /\ fired.from # 0 /\ fired.changes >= 2) =>
        /\ Len(sockets) = fired.base + 1
        /\ sockets[Len(sockets)].url = fired.target
        /\ sockets[fired.from].readyState = CLOSED
        /\ sockets[fired.from].closeCalls = 1

\* a burst of two changes was collapsed into one replacement
C5_Witness ==
    /\ fired.happened
    /\ fired.from = 1
    /\ fired.changes >= 2
    /\ Len(sockets) = 2
    /\ sockets[2].url # sockets[1].url

\* ---- C6 ------------------------------------------------------------------
\* C6: whenever the requested url is the url of the socket in use - as after
\* the changes A->B->A within one window - no timer is pending, no socket has
\* been constructed since the last firing, and the socket in use is still
\* socket.current and was never closed by the hook.
C6_CancelToSelf ==
    (mounted /\ debouncedUrl # None /\ url = debouncedUrl) =>
        /\ timer = None
        /\ socketCurrent = Len(sockets)
        /\ Len(sockets) = fired.base + 1
        /\ sockets[socketCurrent].url = debouncedUrl
        /\ sockets[socketCurrent].closeCalls = 0

\* the url went away from and back to the url of the open socket
C6_Witness ==
    /\ mounted
    /\ debouncedUrl # None
    /\ url = debouncedUrl
    /\ changes >= 2
    /\ timer = None
    /\ Len(sockets) = 1
    /\ sockets[1].readyState = OPEN

\* ---- C7 ------------------------------------------------------------------
\* C7: while a switch is pending for a socket in use, that socket is still
\* socket.current, the last socket constructed, and not closed by the hook;
\* the render that arms the timer leaves every socket as it is, and a socket
\* is only ever constructed by the firing of the timer.
C7_NoCloseBeforeTimerFires ==
    /\ []((mounted /\ debouncedUrl # None /\ timer # None) =>
            /\ socketCurrent = Len(sockets)
            /\ Len(sockets) = fired.base + 1
            /\ sockets[socketCurrent].url = debouncedUrl
            /\ sockets[socketCurrent].closeCalls = 0)
    /\ [][(mounted /\ debouncedUrl # None /\ url' # url /\ timer' # None) =>
            (sockets' = sockets /\ socketCurrent' = socketCurrent)]_vars
    /\ [][(Len(sockets') # Len(sockets)) =>
            (timer # None /\ timer' = None /\ debouncedUrl' = timer)]_vars

\* the url changed after the socket was initialised; the timer has not fired
C7_Witness ==
    /\ mounted
    /\ debouncedUrl # None
    /\ timer # None
    /\ timer # debouncedUrl
    /\ Len(sockets) = 1
    /\ sockets[1].url = debouncedUrl
    /\ sockets[1].readyState = CONNECTING

\* ---- C8 ------------------------------------------------------------------
\* C8: a render with the url of the socket in use - whether or not the url
\* prop changed - closes no socket, constructs none and leaves no timer armed.
C8_SameAddressIdempotent ==
    [][\A u \in Addrs :
         (SetTarget(u) /\ u = debouncedUrl /\ socketCurrent # 0) =>
            /\ sockets' = sockets
            /\ socketCurrent' = socketCurrent
            /\ debouncedUrl' = debouncedUrl
            /\ timer' = None]_vars

\* setTarget(A) was called while the live socket for A was in use
C8_Witness ==
    /\ mounted
    /\ debouncedUrl # None
    /\ url = debouncedUrl
    /\ changes >= 2
    /\ socketCurrent # 0
    /\ sockets[socketCurrent].url = url
    /\ sockets[socketCurrent].readyState = CONNECTING
    /\ sockets[socketCurrent].closeCalls = 0

\* ---- C9 ------------------------------------------------------------------
\* C9 as stated: a setTarget with an address while no connection exists
\* constructs the socket for that address at once, in state CONNECTING.
C9_ImmediateCreation ==
    [][\A u \in Addrs :
         (SetTarget(u) /\ u # url /\ debouncedUrl = None) =>
            /\ Len(sockets') = Len(sockets) + 1
            /\ socketCurrent' = Len(sockets')
            /\ sockets'[socketCurrent'].url = u
            /\ sockets'[socketCurrent'].readyState = CONNECTING]_vars

\* C9 as amended: a setTarget with an address while no connection exists
\* constructs nothing and arms the debounce timer with that address; the
\* firing of the timer constructs one socket, for the newest url, in state
\* CONNECTING, and makes it socket.current.
C9_CreationAfterDebounce ==
    /\ [][\A u \in Addrs :
            (SetTarget(u) /\ u # url /\ debouncedUrl = None) =>
               /\ sockets' = sockets
               /\ socketCurrent' = socketCurrent
               /\ timer' = u]_vars
    /\ [][(TimerFire /\ debouncedUrl = None) =>
            /\ Len(sockets') = Len(sockets) + 1
            /\ socketCurrent' = Len(sockets')
            /\ sockets'[socketCurrent'].url = url
            /\ sockets'[socketCurrent'].readyState = CONNECTING
            /\ sockets'[socketCurrent'].sentMessages = <<>>]_vars

\* the first socket exists, constructed by the firing of the timer
C9_Witness ==
    /\ fired.happened
    /\ fired.from = 0
    /\ fired.changes = 1
    /\ Len(sockets) = 1
    /\ socketCurrent = 1
    /\ sockets[1].url = fired.target
    /\ sockets[1].readyState = CONNECTING

\* ---- C10 -----------------------------------------------------------------
\* C10: when the url changed before the first socket was constructed, then
\* after the timer fired exactly one socket exists, and it targets the url
\* that was current when the timer fired.
C10_OnlyNewUrlSocket ==
    (fired.happened /\ fired.base = 0 /\ fired.changes >= 2) =>
        /\ Len(sockets) = 1
        /\ socketCurrent = 1
        /\ sockets[1].url = fired.target

\* the url changed once before the first socket, which targets the new url
C10_Witness ==
    /\ fired.happened
    /\ fired.base = 0
    /\ fired.changes = 2
    /\ Len(sockets) = 1
    /\ sockets[1].url = url
    /\ sockets[1].readyState = CONNECTING

\* ---- C11 -----------------------------------------------------------------
\* C11: without a url no timer is armed and no socket is live, and no socket is
\* ever constructed without a url; the render that drops the url closes the
\* socket in use and constructs none; a send made without a url only appends
\* its frame to the queue and touches no socket.
C11_AbsentTarget ==
    /\ []((mounted /\ url = None) =>
            /\ timer = None
            /\ \A i \in 1..Len(sockets) : sockets[i].readyState = CLOSED)
    /\ [][Len(sockets') # Len(sockets) => (url # None /\ url' # None)]_vars
    /\ [][ClearTarget =>
            /\ Len(sockets') = Len(sockets)
            /\ socketCurrent # 0 =>
                 /\ sockets'[socketCurrent].readyState = CLOSED
                 /\ sockets'[socketCurrent].closeCalls > 0]_vars
    /\ [][\A p \in Payloads :
            (Send(p) /\ url = None) =>
               /\ queue' = Append(queue, Stringify(p))
               /\ sockets' = sockets
               /\ socketCurrent' = socketCurrent]_vars

\* the url was dropped while the socket was OPEN; a later send is queued
C11_Witness ==
    /\ mounted
    /\ url = None
    /\ Len(sockets) = 1
    /\ sockets[1].sentMessages # <<>>
    /\ sockets[1].readyState = CLOSED
    /\ sockets[1].closeCalls = 1
    /\ queue # <<>>

\* ---- observed connection state -------------------------------------------
Uninitialized == "uninitialized"                 \* readyState undefined (line 44)

\* result.current.readyState (lines 44, 53, 64, 118, 131): undefined as long as
\* socket.current is null, otherwise the readyState of socket.current
GetState ==
    IF socketCurrent = 0 THEN Uninitialized
    ELSE sockets[socketCurrent].readyState

\* ---- C12 -----------------------------------------------------------------
\* C12 as stated: without a url the hook holds no socket and the observed
\* connection state is "uninitialized", also after a socket had been in use.
C12_UninitializedWhenAbsent ==
    (mounted /\ url = None) =>
        /\ socketCurrent = 0
        /\ GetState = Uninitialized

\* ---- C13 -----------------------------------------------------------------
\* C13: the observed state is "uninitialized" as long as no socket has been
\* constructed; afterwards it is the readyState of the socket constructed
\* last, which is the socket for the debounced url whenever one is in use -
\* after a replacement the new socket, not the closed old one.
C13_StateReflectsActive ==
    /\ Len(sockets) = 0 => GetState = Uninitialized
    /\ Len(sockets) > 0 =>
         /\ GetState = sockets[Len(sockets)].readyState
         /\ GetState \in {CONNECTING, OPEN, CLOSED}
    /\ ActiveConnection # 0 =>
         /\ ActiveConnection = Len(sockets)
         /\ sockets[ActiveConnection].url = debouncedUrl

\* after a replacement the state is that of the new socket
C13_Witness ==
    /\ Len(sockets) = 2
    /\ sockets[1].readyState = CLOSED
    /\ sockets[2].readyState = OPEN
    /\ ActiveConnection = 2
    /\ GetState = OPEN

\* ---- C14 -----------------------------------------------------------------
\* C14: a close event of the transport sets the readyState of that socket to
\* CLOSED, which is then the observed state if it is the socket in use, and
\* does nothing else: no socket is constructed, no close() is called, the
\* timer, the debounced url and the queue stay as they are.  A socket is only
\* ever constructed for a url other than the one in use, never as a retry.
C14_TransportCloseOnlyChangesState ==
    /\ [][\A i \in 1..MaxSockets :
            TriggerClose(i) =>
               /\ Len(sockets') = Len(sockets)
               /\ socketCurrent' = socketCurrent
               /\ timer' = timer
               /\ debouncedUrl' = debouncedUrl
               /\ queue' = queue
               /\ sockets' = [sockets EXCEPT ![i].readyState = CLOSED]
               /\ i = socketCurrent => GetState' = CLOSED]_vars
    /\ [][Len(sockets') > Len(sockets) =>
            /\ timer # None
            /\ timer # debouncedUrl
            /\ sockets'[Len(sockets')].url = timer]_vars

\* the transport closed the socket in use; nothing replaces it
C14_Witness ==
    /\ mounted
    /\ debouncedUrl # None
    /\ url = debouncedUrl
    /\ timer = None
    /\ Len(sockets) = 1
    /\ sockets[1].closeCalls = 0
    /\ sockets[1].sentMessages # <<>>
    /\ GetState = CLOSED

\* ---- C15 -----------------------------------------------------------------
\* C15: the teardown can run in every state of a mounted hook; once it has
\* run - once or several times - no timer is armed, every socket is CLOSED,
\* and from then on no socket is constructed and no timer is armed.
C15_DisposeSafe ==
    /\ [](mounted => ENABLED Unmount)
    /\ [](~mounted =>
            /\ timer = None
            /\ \A i \in 1..Len(sockets) : sockets[i].readyState = CLOSED)
    /\ [][~mounted =>
            /\ ~mounted'
            /\ timer' = None
            /\ Len(sockets') = Len(sockets)]_vars

\* the hook was torn down twice while its socket was in use
C15_Witness ==
    /\ ~mounted
    /\ debouncedUrl # None
    /\ socketCurrent # 0
    /\ sockets[socketCurrent].url = debouncedUrl
    /\ sockets[socketCurrent].sentMessages # <<>>
    /\ sockets[socketCurrent].closeCalls = 2
    /\ sockets[socketCurrent].readyState = CLOSED

\* ---- late events of a discarded socket -----------------------------------
\* an "open" event delivered by a socket the hook has already closed.  The
\* listener of line 7 is never removed, so openHandler runs; the socket mock
\* sets readyState to OPEN before it dispatches (lines 126-134), a transport
\* that honours close() leaves it CLOSED: st is either.
LateOpen(i, st) ==
    /\ i \in 1..Len(sockets)
    /\ sockets[i].closeCalls > 0
    /\ sockets[i].readyState = CLOSED
    /\ st \in {OPEN, CLOSED}
    /\ LET opened == [sockets EXCEPT ![i].readyState = st]
           r == IF sockets[i].openListener
                THEN OpenHandler(opened, socketCurrent, queue)
                ELSE <<opened, queue>>
       IN /\ sockets' = AfterRender(r[1])[1]
          /\ socketCurrent' = AfterRender(r[1])[2]
          /\ queue' = r[2]
          /\ drained' = Len(queue) - Len(r[2])
    /\ direct' = FALSE
    /\ UNCHANGED <<url, debouncedUrl, timer, nextId, mounted, changes, fired,
                   carried>>
    /\ UNCHANGED inbound

\* a "close" event delivered by a socket the hook has already closed: the hook
\* listens to no "close" event of the socket (line 7), the socket is CLOSED
LateClose(i) ==
    /\ i \in 1..Len(sockets)
    /\ sockets[i].closeCalls > 0
    /\ LET closed == [sockets EXCEPT ![i].readyState = CLOSED]
       IN /\ sockets' = AfterRender(closed)[1]
          /\ socketCurrent' = AfterRender(closed)[2]
    /\ direct' = FALSE
    /\ carried' = FALSE
    /\ UNCHANGED <<url, debouncedUrl, timer, queue, nextId, mounted, changes,
                   fired, drained>>
    /\ UNCHANGED inbound

NextLate ==
    \/ Next
    \/ \E i \in 1..MaxSockets, st \in {OPEN, CLOSED} : LateOpen(i, st)
    \/ \E i \in 1..MaxSockets : LateClose(i)

\* the hook together with late events of discarded sockets
SpecLate == Init /\ [][NextLate]_vars

\* ---- C16 -----------------------------------------------------------------
\* C16: after the teardown a late open or close event of the discarded
\* socket transmits nothing, leaves the queue, socket.current and the timer
\* as they are and constructs no socket.
C16_LateEventsInert ==
    [][\A i \in 1..MaxSockets :
         (~mounted /\ (LateClose(i) \/ \E st \in {OPEN, CLOSED} : LateOpen(i, st))) =>
            /\ queue' = queue
            /\ \A j \in 1..Len(sockets) :
                 sockets'[j].sentMessages = sockets[j].sentMessages
            /\ Len(sockets') = Len(sockets)
            /\ socketCurrent' = socketCurrent
            /\ timer' = None]_vars

\* ---- C17 -----------------------------------------------------------------
\* C17: nothing is dropped or reordered, whatever is replaced: the frames on
\* the wire followed by the queue are the submitted frames in submission
\* order.  The firing of the timer leaves the queue and every frame sent so
\* far as they are, the new socket has sent nothing; whenever the socket
\* constructed last is in use and OPEN the queue has been flushed; and a
\* socket that is not socket.current never sends.
C17_QueueSurvivesReplacement ==
    /\ [](Wire \o queue = Submitted)
    /\ []((mounted /\ debouncedUrl # None /\ Len(sockets) > 0
              /\ sockets[Len(sockets)].readyState = OPEN) =>
            queue = <<>>)
    /\ [][TimerFire =>
            /\ queue' = queue
            /\ \A i \in 1..Len(sockets) :
                 sockets'[i].sentMessages = sockets[i].sentMessages
            /\ sockets'[Len(sockets')].sentMessages = <<>>]_vars
    /\ [][\A i \in 1..Len(sockets) :
            i # socketCurrent' =>
               sockets'[i].sentMessages = sockets[i].sentMessages]_vars

\* messages were queued when the socket was replaced; the replaced socket
\* sent nothing, the new socket opened and sent two messages in order
C17_Witness ==
    /\ fired.happened
    /\ fired.from = 1
    /\ carried
    /\ Len(sockets) = 2
    /\ sockets[1].sentMessages = <<>>
    /\ sockets[2].readyState = OPEN
    /\ sockets[2].sentMessages = Submitted
    /\ Len(Submitted) = 2
    /\ queue = <<>>

\* ---- C18 -----------------------------------------------------------------
\* C18: a send made while the socket in use is OPEN appends exactly its frame
\* to the frames that socket has sent - after everything submitted before,
\* without a further open event - and leaves the queue empty.
C18_SendWhileOpen ==
    [][\A p \in Payloads :
         (Send(p) /\ Ready(sockets, socketCurrent)) =>
            /\ sockets'[socketCurrent].sentMessages =
                 Append(sockets[socketCurrent].sentMessages, Stringify(p))
            /\ Wire' = Submitted'
            /\ queue' = <<>>
            /\ sockets'[socketCurrent].readyState = OPEN]_vars

\* the last send found the socket OPEN: its frame is the last one on the wire
C18_Witness ==
    /\ direct
    /\ Ready(sockets, socketCurrent)
    /\ queue = <<>>
    /\ Len(sockets[socketCurrent].sentMessages) = 2
    /\ sockets[socketCurrent].sentMessages[2] = Stringify(nextId - 1)

\* ---- C19 -----------------------------------------------------------------
MaxInbound == 2

\* the callbacks a caller may register with useMessageHandler (lines 250-252)
Handlers == {"h1", "h2"}

\* JSON.parse(frame): the payload a text frame carries, the inverse of Stringify
Parse(frame) ==
    frame[2]

\* mutant: the handler is called twice for one frame
OnReceive_Twice(h, log, frame) ==
    IF h = None THEN log ELSE log \o << <<h, Parse(frame)>>, <<h, Parse(frame)>> >>

\* onReceive(rawMessage): the frame is parsed and handed to the handler that
\* is registered now; without a handler it is dropped
OnReceive(h, log, frame) ==
    IF h = None THEN log ELSE Append(log, <<h, Parse(frame)>>)

\* useMessageHandler(h) (lines 250-252): h replaces the handler registered
\* before; nothing that arrived earlier is kept for it
UseMessageHandler(h) ==
    /\ mounted
    /\ h # handler
    /\ handler' = h
    /\ sockets' = AfterRender(sockets)[1]
    /\ socketCurrent' = AfterRender(sockets)[2]
    /\ direct' = FALSE
    /\ carried' = FALSE
    /\ UNCHANGED <<url, debouncedUrl, timer, queue, nextId, mounted, changes,
                   fired, drained, received, delivered>>

\* socket.triggerMessage(p) (lines 257-268) on the socket in use, which need
\* not be OPEN in the tests: the frame that carries p arrives
TriggerMessage(i, p) ==
    /\ i # 0
    /\ i = ActiveConnection
    /\ sockets[i].readyState # CLOSED
    /\ received < MaxInbound
    /\ p = received + 1
    /\ received' = received + 1
    /\ delivered' = OnReceive(handler, delivered, Stringify(p))
    /\ sockets' = AfterRender(sockets)[1]
    /\ socketCurrent' = AfterRender(sockets)[2]
    /\ direct' = FALSE
    /\ carried' = FALSE
    /\ UNCHANGED <<url, debouncedUrl, timer, queue, nextId, mounted, changes,
                   fired, drained, handler>>

\* the callers of the message-handler tests never send (lines 240-270): the
\* steps of the connection and of the transport, and the inbound ones
NextInbound ==
    \/ \E u \in Addrs : SetTarget(u)
    \/ ClearTarget
    \/ TimerFire
    \/ \E i \in 1..MaxSockets : TriggerOpen(i)
    \/ \E i \in 1..MaxSockets : TriggerClose(i)
    \/ Unmount
    \/ \E h \in Handlers : UseMessageHandler(h)
    \/ \E i \in 1..MaxSockets : \E p \in 1..MaxInbound : TriggerMessage(i, p)

SpecInbound == Init /\ [][NextInbound]_vars

\* C19: a message received on the socket in use is handed, parsed, exactly
\* once to the handler registered at that moment and to no other; without a
\* handler it is dropped; no other step - registering a handler included -
\* calls a handler, so nothing is replayed to a handler registered later.
C19_InboundDispatch ==
    /\ [][received' = received + 1 =>
            delivered' = IF handler = None
                         THEN delivered
                         ELSE Append(delivered, <<handler, received + 1>>)]_vars
    /\ [][received' = received => delivered' = delivered]_vars
    /\ [](Len(delivered) <= received)
    /\ [](\A k \in 1..Len(delivered) :
            /\ delivered[k][1] \in Handlers
            /\ delivered[k][2] \in 1..received
            /\ \A j \in 1..Len(delivered) :
                 delivered[j][2] = delivered[k][2] => j = k)

\* the first message arrived with no handler and was dropped; h1 received
\* the second one only, and h2, registered after it, received nothing
C19_Witness ==
    /\ received = 2
    /\ delivered = << <<"h1", 2>> >>
    /\ handler = "h2"

====
